---- MODULE Spec2Model ----
(***************************************************************************)
(* Two-phase truck/compartment optimisation of src/app.py.                 *)
(*                                                                         *)
(* run_optimization builds two 0/1 programs over the same fleet: phase 1   *)
(* minimises the number of trucks used, phase 2 pins that number and       *)
(* minimises the loaded volume.  The external solver (CBC through PuLP) is *)
(* modelled by what it guarantees: status Optimal with SOME optimal        *)
(* solution when the program is feasible (a nondeterministic choice among  *)
(* the optima), another status otherwise.  Values are exact integers.      *)
(*                                                                         *)
(* truck_data is a sequence of trucks (the dict's insertion order), each a *)
(* sequence of capacities; the compartment id is its position in the truck *)
(* (main() builds the ids "<truck>_c<idx>").                               *)
(***************************************************************************)
EXTENDS Integers, Sequences, FiniteSets

\* ---- bounds of the model ------------------------------------------------
MaxTrucks == 2
MaxComps == 2
MaxCap == 2
MaxDemand == 2
\* The most compartments of a fleet that is followed over several requests.
MaxSessionComps == 3

VARIABLES truck_data, demand, pc, status1, min_trucks, status2,
          X2, A2, E2, D2, result, prev

vars == <<truck_data, demand, pc, status1, min_trucks, status2,
          X2, A2, E2, D2, result, prev>>

\* ---- inputs ---------------------------------------------------------------
\* A truck as main() parses it: one or more capacities, each a digit string.
TruckLists == UNION {[1..n -> 0..MaxCap] : n \in 1..MaxComps}

Fleets == UNION {[1..n -> TruckLists] : n \in 1..MaxTrucks}

\* (demand_a95, demand_e5, demand_diesel): number_input with min_value=0.
Demands == [a95 : 0..MaxDemand, e5 : 0..MaxDemand, diesel : 0..MaxDemand]

\* ---- the program's data ---------------------------------------------------
\* Mutation: the diesel demand is forgotten in the total.
TotalDemandNoDiesel(d) == d.a95 + d.e5

\* total_demand (line 15)
TotalDemand(d) == d.a95 + d.e5 + d.diesel

RECURSIVE CompartmentsFrom(_, _)
CompartmentsFrom(td, t) ==
    IF t > Len(td) THEN <<>>
    ELSE [i \in 1..Len(td[t]) |-> <<t, i, td[t][i]>>] \o CompartmentsFrom(td, t + 1)

\* all_compartments: the (t, cid, cap) triples in truck and compartment order.
AllCompartments(td) == CompartmentsFrom(td, 1)

\* The keys (t, cid) of the variable dictionaries A, E, D.
Keys(td) == UNION {{<<t, i>> : i \in DOMAIN td[t]} : t \in DOMAIN td}

Binary == {0, 1}

\* A[(t,cid)] + E[(t,cid)] + D[(t,cid)] <= 1, on one compartment's triple.
OneCommodity(v) == v[1] + v[2] + v[3] <= 1

\* The value assignments of the binary variables X[t], A[k], E[k], D[k] the
\* solver ranges over.  The constraint of lines 43 and 79 involves one
\* compartment's three variables only, so it is applied while the triples
\* are enumerated.
Variables(td) ==
    LET K == Keys(td)
        Triples == {v \in Binary \X Binary \X Binary : OneCommodity(v)}
    IN  {[X |-> x,
          A |-> [k \in K |-> l[k][1]],
          E |-> [k \in K |-> l[k][2]],
          D |-> [k \in K |-> l[k][3]]] :
            x \in [DOMAIN td -> Binary], l \in [K -> Triples]}

\* pulp.lpSum(V[(t, cid)] * cap for (t, cid, cap) in all_compartments)
RECURSIVE LpSum(_, _)
LpSum(V, comps) ==
    IF comps = <<>> THEN 0
    ELSE V[<<Head(comps)[1], Head(comps)[2]>>] * Head(comps)[3] + LpSum(V, Tail(comps))

\* pulp.lpSum(X[t] for t in truck_data)
RECURSIVE SumX(_, _)
SumX(X, n) == IF n = 0 THEN 0 ELSE X[n] + SumX(X, n - 1)

MinOf(S) == CHOOSE m \in S : \A x \in S : m <= x

\* ---- phase 1 --------------------------------------------------------------
\* Lines 42-50: a loaded compartment implies its truck is used, and the
\* three demand rows.
Phase1Constraints(td, d, s) ==
    LET ac == AllCompartments(td)
    IN  /\ \A k \in DOMAIN s.A : s.A[k] + s.E[k] + s.D[k] <= s.X[k[1]]
        /\ LpSum(s.A, ac) >= d.a95
        /\ LpSum(s.E, ac) >= d.e5
        /\ LpSum(s.D, ac) >= d.diesel

\* Mutation: the problem is built with the opposite sense (maximize).
Phase1ObjectiveMax(td, s) == 0 - SumX(s.X, Len(td))

\* Line 53: the number of trucks used, minimized.
Phase1Objective(td, s) == SumX(s.X, Len(td))

\* Line 60: min_trucks, read back from the solved variables.
MinTrucks(td, s) == SumX(s.X, Len(td))

\* Mutation: the solver stops at the first feasible point instead of an
\* optimal one.
Phase1AnyFeasible(td, d) == {s \in Variables(td) : Phase1Constraints(td, d, s)}

\* What phase1.solve() may leave in the variables when the status is Optimal;
\* empty when the program is infeasible.
Phase1Optimal(td, d) ==
    LET F == {s \in Variables(td) : Phase1Constraints(td, d, s)}
    IN  IF F = {} THEN {}
        ELSE LET m == MinOf({Phase1Objective(td, s) : s \in F})
             IN  {s \in F : Phase1Objective(td, s) = m}

\* ---- phase 2 --------------------------------------------------------------
\* Mutation: the diesel demand row is left out.
Phase2ConstraintsNoDiesel(td, d, T, s) ==
    LET ac == AllCompartments(td)
    IN  /\ \A k \in DOMAIN s.A : s.A[k] + s.E[k] + s.D[k] <= s.X[k[1]]
        /\ LpSum(s.A, ac) >= d.a95
        /\ LpSum(s.E, ac) >= d.e5
        /\ SumX(s.X, Len(td)) = T

\* Mutation: the truck count is bounded from below instead of pinned.
Phase2ConstraintsAtLeast(td, d, T, s) ==
    LET ac == AllCompartments(td)
    IN  /\ \A k \in DOMAIN s.A : s.A[k] + s.E[k] + s.D[k] <= s.X[k[1]]
        /\ LpSum(s.A, ac) >= d.a95
        /\ LpSum(s.E, ac) >= d.e5
        /\ LpSum(s.D, ac) >= d.diesel
        /\ SumX(s.X, Len(td)) >= T

\* Mutation: the demand rows are strict.
Phase2ConstraintsStrict(td, d, T, s) ==
    LET ac == AllCompartments(td)
    IN  /\ \A k \in DOMAIN s.A : s.A[k] + s.E[k] + s.D[k] <= s.X[k[1]]
        /\ LpSum(s.A, ac) > d.a95
        /\ LpSum(s.E, ac) > d.e5
        /\ LpSum(s.D, ac) > d.diesel
        /\ SumX(s.X, Len(td)) = T

\* Mutation: the row tying a loaded compartment to its truck is left out.
Phase2ConstraintsNoLink(td, d, T, s) ==
    LET ac == AllCompartments(td)
    IN  /\ LpSum(s.A, ac) >= d.a95
        /\ LpSum(s.E, ac) >= d.e5
        /\ LpSum(s.D, ac) >= d.diesel
        /\ SumX(s.X, Len(td)) = T

\* Lines 78-87: the rows of phase 1 again, and the truck count pinned to
\* min_trucks.
Phase2Constraints(td, d, T, s) ==
    LET ac == AllCompartments(td)
    IN  /\ \A k \in DOMAIN s.A : s.A[k] + s.E[k] + s.D[k] <= s.X[k[1]]
        /\ LpSum(s.A, ac) >= d.a95
        /\ LpSum(s.E, ac) >= d.e5
        /\ LpSum(s.D, ac) >= d.diesel
        /\ SumX(s.X, Len(td)) = T

\* Mutation: the diesel term is missing from the objective.
Phase2ObjectiveNoDiesel(td, s) ==
    LET ac == AllCompartments(td)
    IN  LpSum(s.A, ac) + LpSum(s.E, ac)

\* Lines 90-92: the total capacity of the loaded compartments.
Phase2Objective(td, s) ==
    LET ac == AllCompartments(td)
    IN  LpSum(s.A, ac) + LpSum(s.E, ac) + LpSum(s.D, ac)

\* Mutation: the solver stops at the first feasible point.
Phase2AnyFeasible(td, d, T) == {s \in Variables(td) : Phase2Constraints(td, d, T, s)}

Phase2Optimal(td, d, T) ==
    LET F == {s \in Variables(td) : Phase2Constraints(td, d, T, s)}
    IN  IF F = {} THEN {}
        ELSE LET m == MinOf({Phase2Objective(td, s) : s \in F})
             IN  {s \in F : Phase2Objective(td, s) = m}

\* ---- the returned dictionary ----------------------------------------------
None == [kind |-> "None"]

Pending == [kind |-> "pending"]

\* used_trucks: the trucks with X2[t] > 0.5, in truck order.
RECURSIVE UsedTrucks(_, _, _)
UsedTrucks(X, t, n) ==
    IF t > n THEN <<>>
    ELSE (IF 2 * X[t] > 1 THEN <<t>> ELSE <<>>) \o UsedTrucks(X, t + 1, n)

\* The label of a row (the source's third label is the Vietnamese word for
\* diesel oil).
Product(valA, valE, valD) ==
    IF 2 * valA > 1 THEN "A95" ELSE IF 2 * valE > 1 THEN "E5" ELSE "Diesel"

\* allocation: one row (t, cid, cap, product) per compartment whose three
\* values sum above 0.5, in all_compartments order.
RECURSIVE Allocation(_, _, _, _)
Allocation(comps, A, E, D) ==
    IF comps = <<>> THEN <<>>
    ELSE LET c == Head(comps)
             k == <<c[1], c[2]>>
         IN  (IF 2 * (A[k] + E[k] + D[k]) > 1
              THEN <<[truck |-> c[1], cid |-> c[2], cap |-> c[3],
                      product |-> Product(A[k], E[k], D[k])]>>
              ELSE <<>>) \o Allocation(Tail(comps), A, E, D)

TotalUsed(td, A, E, D) ==
    LET ac == AllCompartments(td)
    IN  LpSum(A, ac) + LpSum(E, ac) + LpSum(D, ac)

Leftover(total_used, d) == total_used - TotalDemand(d)

ResultDict(td, d, T, X, A, E, D) ==
    [kind |-> "result",
     min_trucks |-> T,
     total_used |-> TotalUsed(td, A, E, D),
     leftover |-> Leftover(TotalUsed(td, A, E, D), d),
     used_trucks |-> UsedTrucks(X, 1, Len(td)),
     allocation |-> Allocation(AllCompartments(td), A, E, D)]

\* ---- the state machine ----------------------------------------------------
NoPrev == [kind |-> "none"]

Init ==
    /\ truck_data \in Fleets
    /\ demand \in Demands
    /\ pc = "phase1"
    /\ status1 = "NotSolved"
    /\ status2 = "NotSolved"
    /\ min_trucks = 0
    /\ X2 = <<>> /\ A2 = <<>> /\ E2 = <<>> /\ D2 = <<>>
    /\ result = Pending
    /\ prev = NoPrev

\* Lines 17-60: build and solve phase 1; return None unless Optimal.
SolvePhase1 ==
    /\ pc = "phase1"
    /\ LET O == Phase1Optimal(truck_data, demand)
       IN  IF O = {}
           THEN /\ status1' = "Infeasible"
                /\ result' = None
                /\ pc' = "done"
                /\ UNCHANGED min_trucks
           ELSE /\ status1' = "Optimal"
                /\ \E s \in O : min_trucks' = MinTrucks(truck_data, s)
                /\ pc' = "phase2"
                /\ UNCHANGED result
    /\ UNCHANGED <<truck_data, demand, status2, X2, A2, E2, D2, prev>>

\* Lines 62-96: build and solve phase 2 with the truck count pinned.
SolvePhase2 ==
    /\ pc = "phase2"
    /\ LET O == Phase2Optimal(truck_data, demand, min_trucks)
       IN  IF O = {}
           THEN /\ status2' = "Infeasible"
                /\ result' = None
                /\ pc' = "done"
                /\ UNCHANGED <<X2, A2, E2, D2>>
           ELSE /\ status2' = "Optimal"
                /\ \E s \in O :
                      /\ X2' = s.X /\ A2' = s.A /\ E2' = s.E /\ D2' = s.D
                /\ pc' = "extract"
                /\ UNCHANGED result
    /\ UNCHANGED <<truck_data, demand, status1, min_trucks, prev>>

\* Lines 98-130: read the solution back and return the dictionary.
Extract ==
    /\ pc = "extract"
    /\ result' = ResultDict(truck_data, demand, min_trucks, X2, A2, E2, D2)
    /\ pc' = "done"
    /\ UNCHANGED <<truck_data, demand, status1, min_trucks, status2,
                   X2, A2, E2, D2, prev>>

\* What a later request is compared with: the finished request's demand and
\* the figures of its result.
Summary(d, r) ==
    IF r.kind = "result"
    THEN [kind |-> "result", demand |-> d, min_trucks |-> r.min_trucks,
          total_used |-> r.total_used, leftover |-> r.leftover]
    ELSE [kind |-> "None", demand |-> d]

\* Lines 168-195: the button is pressed again with the same fleet text and
\* one demand figure raised; run_optimization starts afresh.
NextRequest ==
    /\ pc = "done"
    /\ \E d \in Demands :
          /\ d.a95 >= demand.a95 /\ d.e5 >= demand.e5 /\ d.diesel >= demand.diesel
          /\ Cardinality({f \in {"a95", "e5", "diesel"} : d[f] # demand[f]}) = 1
          /\ demand' = d
    /\ prev' = Summary(demand, result)
    /\ pc' = "phase1"
    /\ status1' = "NotSolved"
    /\ status2' = "NotSolved"
    /\ min_trucks' = 0
    /\ X2' = <<>> /\ A2' = <<>> /\ E2' = <<>> /\ D2' = <<>>
    /\ result' = Pending
    /\ UNCHANGED truck_data

\* One call of run_optimization.
Next == SolvePhase1 \/ SolvePhase2 \/ Extract

Spec == Init /\ [][Next]_vars

\* A session: calls one after the other on the same fleet.
NextSession == SolvePhase1 \/ SolvePhase2 \/ Extract \/ NextRequest

SessionInit ==
    /\ Init
    /\ Cardinality(Keys(truck_data)) <= MaxSessionComps

SessionSpec == SessionInit /\ [][NextSession]_vars

\* ---- the assignment problem, stated without the solver's variables --------
Commodities == {"A95", "E5", "Diesel"}

\* An assignment gives every compartment one commodity or leaves it empty.
Assignments(td) == [Keys(td) -> Commodities \cup {"empty"}]

RECURSIVE CapOf(_, _)
CapOf(td, K) ==
    IF K = {} THEN 0
    ELSE LET k == CHOOSE k \in K : TRUE
         IN  td[k[1]][k[2]] + CapOf(td, K \ {k})

Loaded(td, a, c) == CapOf(td, {k \in DOMAIN a : a[k] = c})

Volume(td, a) == CapOf(td, {k \in DOMAIN a : a[k] # "empty"})

Meets(td, a, d) ==
    /\ Loaded(td, a, "A95") >= d.a95
    /\ Loaded(td, a, "E5") >= d.e5
    /\ Loaded(td, a, "Diesel") >= d.diesel

TrucksLoaded(a) == {k[1] : k \in {j \in DOMAIN a : a[j] # "empty"}}

FeasibleAssignments(td, d) == {a \in Assignments(td) : Meets(td, a, d)}

\* The rows of an allocation, as a set of positions, and their capacities.
RECURSIVE RowCap(_, _)
RowCap(alloc, I) ==
    IF I = {} THEN 0
    ELSE LET i == CHOOSE i \in I : TRUE
         IN  alloc[i].cap + RowCap(alloc, I \ {i})

RowsOf(alloc, c) == {i \in DOMAIN alloc : alloc[i].product = c}

DemandOf(d, c) == IF c = "A95" THEN d.a95 ELSE IF c = "E5" THEN d.e5 ELSE d.diesel

Returned == pc = "done" /\ result.kind = "result"

PositiveCaps(td) == \A k \in Keys(td) : td[k[1]][k[2]] > 0

\* ---- C1 -------------------------------------------------------------------
\* C1: whenever run_optimization returns a result, min_trucks is the least
\* number of loaded trucks over all assignments that meet the three demands:
\* some feasible assignment loads exactly min_trucks trucks and none loads
\* fewer.
MinTrucksIsMinimum ==
    Returned =>
        LET FA == FeasibleAssignments(truck_data, demand)
        IN  /\ \E a \in FA : Cardinality(TrucksLoaded(a)) = result.min_trucks
            /\ \A a \in FA : Cardinality(TrucksLoaded(a)) >= result.min_trucks

\* A result with one truck on a two-truck fleet where some feasible assignment
\* loads both trucks.
MinTrucksWitness ==
    /\ Returned
    /\ result.min_trucks = 1
    /\ \E a \in FeasibleAssignments(truck_data, demand) :
          Cardinality(TrucksLoaded(a)) = 2

\* ---- C2 -------------------------------------------------------------------
\* C2: in every returned result, for each commodity, the capacities of the
\* allocation rows labelled with it add up to at least its demand.
RowsMeetDemand ==
    Returned =>
        \A c \in Commodities :
            RowCap(result.allocation, RowsOf(result.allocation, c)) >= DemandOf(demand, c)

\* A result where all three commodities are demanded and loaded.
RowsMeetDemandWitness ==
    /\ Returned
    /\ demand.a95 > 0 /\ demand.e5 > 0 /\ demand.diesel > 0
    /\ \A c \in Commodities : RowsOf(result.allocation, c) # {}

\* ---- C3 -------------------------------------------------------------------
\* C3: in every returned result, used_trucks has min_trucks entries and lists
\* exactly the trucks that have a row in allocation.
UsedTrucksMatch ==
    Returned =>
        /\ Len(result.used_trucks) = result.min_trucks
        /\ {result.used_trucks[i] : i \in DOMAIN result.used_trucks}
             = {result.allocation[i].truck : i \in DOMAIN result.allocation}

\* A result although some feasible assignment on more trucks loads less
\* volume.
UsedTrucksWitness ==
    /\ Returned
    /\ result.min_trucks > 0
    /\ \E a \in FeasibleAssignments(truck_data, demand) :
          /\ Cardinality(TrucksLoaded(a)) > result.min_trucks
          /\ Volume(truck_data, a) < result.total_used

\* ---- C4 -------------------------------------------------------------------
\* C4: in every returned result, total_used is the least loaded volume over
\* the feasible assignments that load exactly min_trucks trucks.
TotalUsedIsMinimum ==
    Returned =>
        LET FA == {a \in FeasibleAssignments(truck_data, demand) :
                      Cardinality(TrucksLoaded(a)) = result.min_trucks}
        IN  /\ \E a \in FA : Volume(truck_data, a) = result.total_used
            /\ \A a \in FA : Volume(truck_data, a) >= result.total_used

\* A result where some feasible assignment on min_trucks trucks loads more
\* than the returned one, and the returned one loads more than the demand.
TotalUsedWitness ==
    /\ Returned
    /\ result.total_used > demand.a95 + demand.e5 + demand.diesel
    /\ \E a \in FeasibleAssignments(truck_data, demand) :
          /\ Cardinality(TrucksLoaded(a)) = result.min_trucks
          /\ Volume(truck_data, a) > result.total_used

\* ---- C5 -------------------------------------------------------------------
\* C5: in every returned result, leftover is not negative, it is total_used
\* minus the sum of the three demands, and total_used is the sum of the
\* capacities of the allocation rows.
LeftoverAccounting ==
    Returned =>
        /\ result.leftover >= 0
        /\ result.leftover = result.total_used - (demand.a95 + demand.e5 + demand.diesel)
        /\ result.total_used = RowCap(result.allocation, DOMAIN result.allocation)

\* A result with a positive leftover and a positive diesel demand.
LeftoverWitness ==
    /\ Returned
    /\ result.leftover > 0
    /\ demand.diesel > 0

\* ---- C6 -------------------------------------------------------------------
\* C6: a finished call returned None exactly when no assignment meets the
\* three demands; phase 2 is not solved after phase 1 failed, and it is
\* Optimal whenever phase 1 was.
NoneIffInfeasible ==
    pc = "done" =>
        /\ result = None <=> FeasibleAssignments(truck_data, demand) = {}
        /\ result # None => result.kind = "result"
        /\ status1 = "Infeasible" => status2 = "NotSolved"
        /\ status1 = "Optimal" => status2 = "Optimal"

\* None for an instance where every single demand fits the fleet's capacity.
NoneWitness ==
    /\ pc = "done"
    /\ result = None
    /\ LET total == CapOf(truck_data, Keys(truck_data))
       IN  demand.a95 <= total /\ demand.e5 <= total /\ demand.diesel <= total

\* ---- C7 -------------------------------------------------------------------
\* C7: on one fleet, when a demand vector and a componentwise larger one both
\* return a result, min_trucks of the larger is not smaller.
MinTrucksMonotone ==
    (/\ Returned
     /\ prev.kind = "result"
     /\ prev.demand.a95 <= demand.a95
     /\ prev.demand.e5 <= demand.e5
     /\ prev.demand.diesel <= demand.diesel)
        => result.min_trucks >= prev.min_trucks

\* Two results in a row, the second with more trucks.
MinTrucksMonotoneWitness ==
    /\ Returned
    /\ prev.kind = "result"
    /\ result.min_trucks > prev.min_trucks
    /\ prev.min_trucks > 0

\* ---- C8 -------------------------------------------------------------------
\* C8 as stated: on one fleet, when a demand vector and a componentwise
\* larger one both return a result, leftover of the larger is not smaller.
LeftoverMonotone ==
    (/\ Returned
     /\ prev.kind = "result"
     /\ prev.demand.a95 <= demand.a95
     /\ prev.demand.e5 <= demand.e5
     /\ prev.demand.diesel <= demand.diesel)
        => result.leftover >= prev.leftover

\* C8 as amended: on one fleet, when a demand vector and a componentwise
\* larger one both return a result with the same min_trucks, total_used of
\* the larger is not smaller (leftover falls by at most the rise in demand).
TotalUsedMonotone ==
    (/\ Returned
     /\ prev.kind = "result"
     /\ prev.demand.a95 <= demand.a95
     /\ prev.demand.e5 <= demand.e5
     /\ prev.demand.diesel <= demand.diesel
     /\ prev.min_trucks = result.min_trucks)
        => /\ result.total_used >= prev.total_used
           /\ result.leftover >= prev.leftover
                - ((demand.a95 + demand.e5 + demand.diesel)
                   - (prev.demand.a95 + prev.demand.e5 + prev.demand.diesel))

\* Two results in a row on the same positive number of trucks, the second
\* with a smaller leftover.
TotalUsedMonotoneWitness ==
    /\ Returned
    /\ prev.kind = "result"
    /\ prev.min_trucks = result.min_trucks
    /\ result.min_trucks > 0
    /\ result.leftover < prev.leftover

\* ---- C9 -------------------------------------------------------------------
\* C9: a finished call with all three demands zero returned a result with
\* min_trucks 0, no used truck, no allocation row, total_used 0, leftover 0.
ZeroDemand ==
    (pc = "done" /\ demand.a95 = 0 /\ demand.e5 = 0 /\ demand.diesel = 0)
        => /\ result.kind = "result"
           /\ result.min_trucks = 0
           /\ result.used_trucks = <<>>
           /\ result.allocation = <<>>
           /\ result.total_used = 0
           /\ result.leftover = 0

\* A finished zero-demand call on a two-truck fleet with a compartment of
\* capacity zero.
ZeroDemandWitness ==
    /\ Returned
    /\ demand.a95 = 0 /\ demand.e5 = 0 /\ demand.diesel = 0
    /\ Len(truck_data) = 2
    /\ ~PositiveCaps(truck_data)

\* ---- C10 ------------------------------------------------------------------
\* C10: in every returned result on a fleet of positive capacities, no two
\* allocation rows name the same compartment, every row carries one of the
\* three labels, and without any one row the rows of its commodity no longer
\* reach that commodity's demand.
RowsNeeded ==
    (Returned /\ PositiveCaps(truck_data)) =>
        LET al == result.allocation
        IN  /\ \A i, j \in DOMAIN al :
                  (al[i].truck = al[j].truck /\ al[i].cid = al[j].cid) => i = j
            /\ \A i \in DOMAIN al :
                  /\ al[i].product \in Commodities
                  /\ al[i].cap = truck_data[al[i].truck][al[i].cid]
                  /\ RowCap(al, RowsOf(al, al[i].product) \ {i})
                        < DemandOf(demand, al[i].product)

\* A result on positive capacities with rows of two commodities and a
\* positive leftover.
RowsNeededWitness ==
    /\ Returned
    /\ PositiveCaps(truck_data)
    /\ result.leftover > 0
    /\ RowsOf(result.allocation, "A95") # {}
    /\ RowsOf(result.allocation, "Diesel") # {}

====
